---------------------------- MODULE Spec2Model ----------------------------
(***************************************************************************)
(* State-machine model of the JuriSight client.  The repository holds two  *)
(* builds of the same application:                                         *)
(*   "tabs"    - src/src/App.jsx        (TopBar + tab buttons)             *)
(*   "sidebar" - src/unnamed/part_000   (Sidebar, theme, toasts, drop zone)*)
(* The variable variant says which build is running; it never changes.     *)
(* One action is one event handler run to completion (React batches the    *)
(* state updates of a handler and flushes the effects of the render that   *)
(* follows before the next event), or the continuation of an async handler *)
(* after its awaited request has settled.                                  *)
(***************************************************************************)
EXTENDS Naturals, Sequences, FiniteSets

(***************************************************************************)
(* Bounds of the model.                                                    *)
(***************************************************************************)
\* requests that may be in flight at the same time
MaxInflight == 2
\* chat turns kept in the chat panel
MaxTurns == 2
\* toasts kept in the toast queue
MaxToasts == 2
\* files in one selection of the multi-file upload panel
MaxFiles == 2

Variants == {"tabs", "sidebar"}

(***************************************************************************)
(* JavaScript values.  Every value is a record [t, v]: t is the type tag,  *)
(* v the payload (the characters of a string, the identity of an object).  *)
(***************************************************************************)
Undefined == [t |-> "undefined", v |-> ""]
Null == [t |-> "null", v |-> ""]
Str(s) == [t |-> "string", v |-> s]
Obj(n) == [t |-> "object", v |-> n]

\* ToBoolean: what `if (x)`, `!x`, `x || y` test
Truthy(x) == CASE x.t = "string" -> x.v # ""
               [] x.t = "object" -> TRUE
               [] OTHER -> FALSE

\* x || y
OrElse(x, y) == IF Truthy(x) THEN x ELSE y

\* ToString: the DOMString conversion localStorage.setItem applies, and `'' + x`
ToStr(x) == CASE x.t = "string" -> x.v
                 [] x.t = "undefined" -> "undefined"
                 [] x.t = "null" -> "null"
                 [] OTHER -> "[object Object]"

\* the user objects a server may send
UserNames == {"u1", "u2"}

\* JSON.stringify: undefined has no JSON text (the result is undefined)
JSONStringify(x) == CASE x.t = "undefined" -> Undefined
                      [] x.t = "null" -> Str("null")
                      [] x.t = "string" -> Str("\"" \o x.v \o "\"")
                      [] OTHER -> Str("{\"name\":\"" \o x.v \o "\"}")

\* JSON.parse of the text s: [ok |-> TRUE, value] or a SyntaxError
JSONParse(s) ==
  IF s = "null" THEN [ok |-> TRUE, value |-> Null]
  ELSE IF \E n \in UserNames : JSONStringify(Obj(n)).v = s
       THEN [ok |-> TRUE,
             value |-> Obj(CHOOSE n \in UserNames : JSONStringify(Obj(n)).v = s)]
       ELSE [ok |-> FALSE, value |-> Undefined]

(***************************************************************************)
(* localStorage: a function from the keys present to their (string) values.*)
(***************************************************************************)
EmptyStorage == [k \in {} |-> ""]

GetItem(store, k) == IF k \in DOMAIN store THEN Str(store[k]) ELSE Null

SetItem(store, k, x) ==
  [j \in DOMAIN store \cup {k} |-> IF j = k THEN ToStr(x) ELSE store[j]]

RemoveItem(store, k) == [j \in DOMAIN store \ {k} |-> store[j]]

(***************************************************************************)
(* The HTTP layer.  A response is what fetch yields for one request:       *)
(*   status "network" - fetch rejects (no response at all)                 *)
(*   status "error"   - a response with res.ok false                       *)
(*   status "ok"      - a response with res.ok true                        *)
(* json says whether the body parses as JSON (and, for an ok response,     *)
(* whether its content-type is application/json); body is the parsed body. *)
(* An error body is [kind, detail, message], kind "null" for the JSON text *)
(* null.  The server is opaque: any response may answer any request.       *)
(***************************************************************************)
NetworkError == [status |-> "network", json |-> FALSE,
                 body |-> [kind |-> "none", detail |-> Undefined, message |-> Undefined]]

HttpError(json, kind, detail, message) ==
  [status |-> "error", json |-> json,
   body |-> [kind |-> kind, detail |-> detail, message |-> message]]

HttpOk(json, body) == [status |-> "ok", json |-> json, body |-> body]

\* what res.text() yields where the caller expects an object: a string, whose
\* properties are all undefined
TextData == [kind |-> "text"]

ApiOk(data) == [ok |-> TRUE, data |-> data, message |-> ""]
ApiErr(m) == [ok |-> FALSE, data |-> TextData, message |-> m]

\* (a variant that prefers the message field to the detail field)
ErrorMessageMessageFirst(resp) ==
  IF resp.json /\ resp.body.kind = "object"
  THEN ToStr(OrElse(OrElse(resp.body.message, resp.body.detail), Str("Request failed")))
  ELSE "Request failed"

\* the message api() throws for a non-OK response: res.json() rejects for a
\* body that is not JSON and data.detail throws for the JSON value null (both
\* caught), and every property of another JSON value that is not an object is
\* undefined; new Error(message) converts the message to a string
ErrorMessage(resp) ==
  IF resp.json /\ resp.body.kind = "object"
  THEN ToStr(OrElse(OrElse(resp.body.detail, resp.body.message), Str("Request failed")))
  ELSE "Request failed"

\* api(): the value the awaited call yields (ok) or the Error it throws
Api(resp) ==
  CASE resp.status = "network" -> ApiErr("Failed to fetch")
    [] resp.status = "error" -> ApiErr(ErrorMessage(resp))
    [] OTHER -> IF resp.json THEN ApiOk(resp.body) ELSE ApiOk(TextData)

\* the failures the server and the network produce in the model
FailResponses ==
  { NetworkError,
    HttpError(FALSE, "none", Undefined, Undefined),
    HttpError(TRUE, "object", Str("Unauthorized"), Undefined) }

\* the failures api() may meet: any JSON body, with any detail and message
Details == {Undefined, Null, Str(""), Str("Unauthorized"), Obj("errors")}
Messages == {Undefined, Str(""), Str("Bad input")}
ErrorResponses ==
  FailResponses
    \cup { HttpError(TRUE, "null", Undefined, Undefined),
           HttpError(TRUE, "text", Undefined, Undefined) }
    \cup { HttpError(TRUE, "object", d, m) : d \in Details, m \in Messages }

(***************************************************************************)
(* useAuth: the auth store, as functions of a = [token, user, ls].         *)
(***************************************************************************)
\* the useState initialisers: [ok |-> FALSE] when JSON.parse throws
useAuth(store) ==
  LET raw == GetItem(store, "js_user")
      parsed == IF Truthy(raw) THEN JSONParse(raw.v) ELSE [ok |-> TRUE, value |-> Null]
  IN [ok |-> parsed.ok,
      token |-> OrElse(GetItem(store, "js_token"), Str("")),
      user |-> parsed.value]

\* (a variant that stores String(user) instead of its JSON)
saveAuthPlain(a, nextToken, nextUser) ==
  [token |-> nextToken,
   user |-> nextUser,
   ls |-> SetItem(SetItem(a.ls, "js_token", nextToken), "js_user", nextUser)]

saveAuth(a, nextToken, nextUser) ==
  [token |-> nextToken,
   user |-> nextUser,
   ls |-> SetItem(SetItem(a.ls, "js_token", nextToken),
                  "js_user", JSONStringify(nextUser))]

\* (a variant that leaves js_user in localStorage)
logoutTokenOnly(a) ==
  [token |-> Str(""),
   user |-> Null,
   ls |-> RemoveItem(a.ls, "js_token")]

logout(a) ==
  [token |-> Str(""),
   user |-> Null,
   ls |-> RemoveItem(RemoveItem(a.ls, "js_token"), "js_user")]

(***************************************************************************)
(* useTheme (sidebar build): the initialiser and the effect on [dark].     *)
(***************************************************************************)
\* (a variant whose default is the light theme)
useThemeLightDefault(store) ==
  LET saved == GetItem(store, "theme_dark")
  IN IF Truthy(saved) THEN saved.v = "1" ELSE FALSE

useTheme(store) ==
  LET saved == GetItem(store, "theme_dark")
  IN IF Truthy(saved) THEN saved.v = "1" ELSE TRUE

\* (a variant that writes the key "theme")
ThemeEffectOtherKey(store, d) == SetItem(store, "theme", Str(IF d THEN "1" ELSE "0"))

\* the effect's write to localStorage (the root class is rootDark)
ThemeEffect(store, d) == SetItem(store, "theme_dark", Str(IF d THEN "1" ELSE "0"))

(***************************************************************************)
(* What the server may answer.                                             *)
(***************************************************************************)
Tokens == {"t1", "t2"}
UserOf(tk) == IF tk = "t1" THEN Obj("u1") ELSE Obj("u2")

\* bodies of a successful login/register response
AuthData(at, u) == [kind |-> "object", access_token |-> at, user |-> u]
AuthBodies ==
  { AuthData(Str(tk), UserOf(tk)) : tk \in Tokens }
    \cup { AuthData(Undefined, Undefined),       \* {}
           AuthData(Str("t1"), Undefined),       \* no user
           AuthData(Str(""), Null),
           [kind |-> "null", access_token |-> Undefined, user |-> Undefined] }
AuthOk == { HttpOk(TRUE, b) : b \in AuthBodies }
           \cup { HttpOk(FALSE, AuthData(Undefined, Undefined)) }

\* a document of the listing
Doc(tk, n) == [id |-> tk \o "-" \o n, owner |-> tk, status |-> "processed"]
ListData(has, ds) == [kind |-> "object", hasDocuments |-> has, documents |-> ds]
ListBodies(tk) ==
  { ListData(FALSE, <<>>) }
    \cup (IF tk \in Tokens THEN { ListData(TRUE, <<Doc(tk, "a")>>) } ELSE {})
ListOk(tk) == { HttpOk(TRUE, b) : b \in ListBodies(tk) }
\* a listing of two documents
ListOkTwo(tk) ==
  IF tk \in Tokens THEN { HttpOk(TRUE, ListData(TRUE, <<Doc(tk, "a"), Doc(tk, "b")>>)) }
  ELSE {}

\* res.documents || []
Documents(data) ==
  IF data.kind = "object" /\ data.hasDocuments THEN data.documents ELSE <<>>

(***************************************************************************)
(* Requests in flight.  A record is the request and the continuation that  *)
(* awaits it: live says whether the component instance whose handler sent  *)
(* it is still mounted (a state update of an unmounted component is        *)
(* dropped), dlive the same for the Dashboard instance of the tabs build   *)
(* (in the sidebar build docs live in App, which is never unmounted).      *)
(* sel and idx name the file of a multi-file run, arg the document id or   *)
(* the chat message, authorization the header api sets.  overtaken and     *)
(* superseded are history: a listing request issued later has already been *)
(* answered and has written docs; the Summarize button of another document *)
(* was the last one clicked in the panel that sent this summarize request. *)
(***************************************************************************)
\* (a variant of api that sets the header whatever token it is passed)
AuthorizationAlways(tk) == Str("Bearer " \o ToStr(tk))

\* api: if (token) hdrs['Authorization'] = `Bearer ${token}`; Undefined stands
\* for a request without the header
Authorization(tk) == IF Truthy(tk) THEN Str("Bearer " \o ToStr(tk)) ELSE Undefined

Req(kind, path, tk, arg, sel, idx) ==
  [kind |-> kind, path |-> path, token |-> tk, authorization |-> Authorization(tk),
   live |-> TRUE, dlive |-> TRUE,
   arg |-> arg, sel |-> sel, idx |-> idx, overtaken |-> FALSE, superseded |-> FALSE]

ListReq(tk) == Req("list", "/api/documents", tk, "", 0, 0)

\* the sequence q without its i-th element
RemoveAt(q, i) == [j \in 1..(Len(q) - 1) |-> IF j < i THEN q[j] ELSE q[j + 1]]

\* the continuations of an unmounted panel (or AuthView) lose their component
Orphan(q) == [j \in 1..Len(q) |-> [q[j] EXCEPT !.live = FALSE]]
\* ... and those of an unmounted Dashboard (tabs build) lose that too
OrphanAll(q) == [j \in 1..Len(q) |-> [q[j] EXCEPT !.live = FALSE, !.dlive = FALSE]]

(***************************************************************************)
(* The state.                                                              *)
(***************************************************************************)
VARIABLES
  variant,          \* which build runs
  ls,               \* window.localStorage
  crashed,          \* the page load threw: nothing is rendered
  token, user,      \* useAuth
  view,             \* what App renders: "auth", "dashboard" or "none"
  authView,         \* AuthView: [isLogin, loading, error]
  tab, docs, loadingDocs,   \* Dashboard (tabs) / App (sidebar)
  uploadPanel,      \* UploadPanel of the tabs build: [file, progress, status, message]
  files, heap,      \* UploadPanel of the sidebar build: the list shown, the item objects
  documentsPanel,   \* DocumentsPanel: [busyId, summary]
  comparePanel,     \* ComparePanel: [mode, left, right, result, loading]
  chatPanel,        \* ChatPanel: [input, busy, messages]
  dark, rootDark,   \* useTheme, and the 'dark' class of the document root
  toasts,           \* useToasts
  net,              \* the requests in flight, in the order they were sent
  staleDocs         \* history: docs were written by an overtaken listing request

authVars == <<token, user, ls>>
panelVars == <<uploadPanel, files, heap, documentsPanel, comparePanel, chatPanel>>
vars == <<variant, ls, crashed, token, user, view, authView, tab, docs, loadingDocs,
          uploadPanel, files, heap, documentsPanel, comparePanel, chatPanel,
          dark, rootDark, toasts, net, staleDocs>>

\* the object sets of file items that can be alive: the one shown and one per run
MaxSel == MaxInflight + 1

AuthView0 == [isLogin |-> TRUE, loading |-> FALSE, error |-> ""]
UploadPanel0 == [file |-> "", progress |-> 0, status |-> "idle", message |-> ""]
DocumentsPanel0 == [busyId |-> "", summary |-> Str("")]
NoResult == [kind |-> "null", error |-> Undefined, tag |-> ""]
ComparePanel0 == [mode |-> "side", left |-> "", right |-> "", result |-> NoResult,
                  loading |-> FALSE]
ChatPanel0 == [input |-> <<>>, busy |-> FALSE, messages |-> <<>>]
Heap0 == [g \in 1..MaxSel |-> <<>>]
\* (a variant that opens on the documents tab)
InitialTabDocuments(v) == "documents"

\* useState('upload') of Dashboard, useState('dashboard') of App
InitialTab(v) == IF v = "tabs" THEN "upload" ELSE "dashboard"
TabIds(v) == IF v = "tabs" THEN {"upload", "documents", "compare", "chat"}
             ELSE {"dashboard", "upload", "documents", "compare", "chat", "analytics"}

\* (a variant that tests token === '')
RenderAppEmptyOnly(tk) == IF tk = Str("") THEN "auth" ELSE "dashboard"

\* App's router: `if (!token) return <AuthView/>`, else the dashboard
RenderApp(tk) == IF ~Truthy(tk) THEN "auth" ELSE "dashboard"

\* the panel the view router mounts
Panel == IF view = "dashboard" THEN tab ELSE "none"

(***************************************************************************)
(* A page load: the state after App's first render and its mount effects.  *)
(***************************************************************************)
Boot(v, store) ==
  LET au == useAuth(store)
      d == IF v = "sidebar" /\ au.ok THEN useTheme(store) ELSE TRUE
      shown == IF au.ok THEN RenderApp(au.token) ELSE "none"
  IN [ls |-> IF v = "sidebar" /\ au.ok THEN ThemeEffect(store, d) ELSE store,
      crashed |-> ~au.ok,
      token |-> IF au.ok THEN au.token ELSE Str(""),
      user |-> IF au.ok THEN au.user ELSE Null,
      view |-> shown,
      dark |-> d,
      rootDark |-> (v = "sidebar" /\ au.ok /\ d),
      \* the mount effect calls refresh(), which sends the listing request
      net |-> IF shown = "dashboard" THEN <<ListReq(au.token)>> ELSE <<>>]

PanelsInitial ==
  /\ uploadPanel = UploadPanel0 /\ files = 0 /\ heap = Heap0
  /\ documentsPanel = DocumentsPanel0 /\ comparePanel = ComparePanel0
  /\ chatPanel = ChatPanel0

\* (a variant in which the panels keep their state when they are not shown)
PanelsKept == UNCHANGED <<uploadPanel, files, documentsPanel, comparePanel, chatPanel>>

\* the panel that was shown is unmounted; the one that mounts starts from its
\* initial state
PanelsReset ==
  /\ uploadPanel' = UploadPanel0 /\ files' = 0
  /\ documentsPanel' = DocumentsPanel0 /\ comparePanel' = ComparePanel0
  /\ chatPanel' = ChatPanel0

\* item objects no list and no run refers to any more are garbage
Collect(h, shownSel, q) ==
  [g \in 1..MaxSel |->
     IF g = shownSel \/ \E j \in 1..Len(q) : q[j].sel = g THEN h[g] ELSE <<>>]

Init ==
  /\ variant \in Variants
  /\ LET b == Boot(variant, EmptyStorage)
     IN /\ ls = b.ls /\ crashed = b.crashed /\ token = b.token /\ user = b.user
        /\ view = b.view /\ dark = b.dark /\ rootDark = b.rootDark /\ net = b.net
  /\ authView = AuthView0
  /\ tab = InitialTab(variant) /\ docs = <<>> /\ loadingDocs = TRUE
  /\ PanelsInitial
  /\ toasts = <<>> /\ staleDocs = FALSE

\* the browser reloads the page: every continuation is gone, the state is
\* built again from localStorage
Reload ==
  /\ LET b == Boot(variant, ls)
     IN /\ ls' = b.ls /\ crashed' = b.crashed /\ token' = b.token /\ user' = b.user
        /\ view' = b.view /\ dark' = b.dark /\ rootDark' = b.rootDark /\ net' = b.net
  /\ authView' = AuthView0
  /\ tab' = InitialTab(variant) /\ docs' = <<>> /\ loadingDocs' = TRUE
  /\ PanelsReset /\ heap' = Heap0
  /\ toasts' = <<>> /\ staleDocs' = FALSE
  /\ UNCHANGED variant

(***************************************************************************)
(* refresh(): Dashboard.refresh (tabs) and App.refresh (sidebar).  q is    *)
(* the requests in flight, tk the token of the closure that calls it and   *)
(* alive whether the component that owns docs is still mounted.            *)
(***************************************************************************)
\* the sidebar build returns early without a token
RefreshSends(tk) == variant = "tabs" \/ Truthy(tk)

\* (a variant that sends nothing while a listing request is in flight)
refreshDeduplicated(q, tk, alive) ==
  IF RefreshSends(tk) /\ ~(\E j \in 1..Len(q) : q[j].kind = "list")
  THEN Append(q, [ListReq(tk) EXCEPT !.dlive = alive]) ELSE q

refresh(q, tk, alive) ==
  IF RefreshSends(tk) THEN Append(q, [ListReq(tk) EXCEPT !.dlive = alive]) ELSE q

\* setLoadingDocs(true) of a refresh() call
RefreshLoading(tk, alive) ==
  IF RefreshSends(tk) /\ alive THEN TRUE ELSE loadingDocs

(***************************************************************************)
(* AuthView.                                                               *)
(***************************************************************************)
SetIsLogin(b) ==
  /\ view = "auth" /\ authView.isLogin # b
  /\ authView' = [authView EXCEPT !.isLogin = b]
  /\ UNCHANGED <<variant, authVars, crashed, view, tab, docs, loadingDocs, panelVars,
                 dark, rootDark, toasts, net, staleDocs>>

\* AuthView.submit up to its await (the button is disabled while loading)
Submit ==
  /\ view = "auth" /\ ~authView.loading
  /\ authView' = [authView EXCEPT !.error = "", !.loading = TRUE]
  /\ net' = Append(net, Req("auth",
                            IF authView.isLogin THEN "/api/auth/login"
                            ELSE "/api/auth/register",
                            Undefined, "", 0, 0))
  /\ UNCHANGED <<variant, authVars, crashed, view, tab, docs, loadingDocs, panelVars,
                 dark, rootDark, toasts, staleDocs>>

AccessToken(data) == IF data.kind = "object" THEN data.access_token ELSE Undefined
UserField(data) == IF data.kind = "object" THEN data.user ELSE Undefined

\* onAuthed(data) on the JSON value null: reading data.access_token throws a
\* TypeError, and the catch of submit shows its message
NullMessage == "Cannot read properties of null (reading 'access_token')"

\* (a variant that calls onAuthed whatever the outcome of the request)
AuthedAlways(res) == res.data.kind # "null"

\* onAuthed(data) runs to its end: the await did not throw and data is not null
Authed(res) == res.ok /\ res.data.kind # "null"

\* AuthView.submit after its await: onAuthed -> saveAuth, catch, finally, and
\* the render that follows
AuthSettled(i, resp) ==
  /\ i \in 1..Len(net) /\ net[i].kind = "auth"
  /\ resp \in ErrorResponses \cup AuthOk
  /\ LET r == net[i]
         res == Api(resp)
         threw == res.ok /\ res.data.kind = "null"
         saved == Authed(res)
         a == IF saved
              THEN saveAuth([token |-> token, user |-> user, ls |-> ls],
                            AccessToken(res.data), UserField(res.data))
              ELSE [token |-> token, user |-> user, ls |-> ls]
         shown == RenderApp(a.token)
         message == IF threw THEN NullMessage ELSE res.message
     IN /\ token' = a.token /\ user' = a.user /\ ls' = a.ls
        /\ view' = shown
        /\ authView' = IF shown = "dashboard" THEN AuthView0
                       ELSE [authView EXCEPT !.loading = FALSE,
                                             !.error = IF saved THEN @ ELSE message]
        \* the Dashboard mounts (tabs) / the [token] effect runs (sidebar)
        /\ tab' = IF shown = "dashboard" /\ variant = "tabs" THEN "upload" ELSE tab
        /\ docs' = IF shown = "dashboard" /\ variant = "tabs" THEN <<>> ELSE docs
        /\ loadingDocs' = IF shown = "dashboard" THEN TRUE ELSE loadingDocs
        /\ net' = IF shown = "dashboard" THEN refresh(RemoveAt(net, i), a.token, TRUE)
                  ELSE RemoveAt(net, i)
        /\ staleDocs' = IF shown = "dashboard" /\ variant = "tabs" THEN FALSE ELSE staleDocs
  /\ UNCHANGED <<variant, crashed, panelVars, dark, rootDark, toasts>>

(***************************************************************************)
(* App / Dashboard.                                                        *)
(***************************************************************************)
\* onLogout: TopBar's button (tabs), the account menu's item (sidebar)
Logout ==
  /\ view = "dashboard"
  /\ LET a == logout([token |-> token, user |-> user, ls |-> ls])
     IN /\ token' = a.token /\ user' = a.user /\ ls' = a.ls
        /\ view' = RenderApp(a.token)
  /\ authView' = AuthView0
  /\ PanelsReset
  /\ net' = IF variant = "tabs" THEN OrphanAll(net) ELSE Orphan(net)
  /\ heap' = Collect(heap, 0, net')
  /\ tab' = IF variant = "tabs" THEN "upload" ELSE tab
  /\ docs' = IF variant = "tabs" THEN <<>> ELSE docs
  /\ loadingDocs' = IF variant = "tabs" THEN TRUE ELSE loadingDocs
  /\ staleDocs' = IF variant = "tabs" THEN FALSE ELSE staleDocs
  /\ UNCHANGED <<variant, crashed, dark, rootDark, toasts>>

\* a tab button: the panel shown is unmounted, the new one mounts
SetTab(t) ==
  /\ view = "dashboard" /\ t \in TabIds(variant) /\ t # tab
  /\ tab' = t
  /\ PanelsReset
  /\ net' = Orphan(net)
  /\ heap' = Collect(heap, 0, net')
  /\ UNCHANGED <<variant, authVars, crashed, view, authView, docs, loadingDocs,
                 dark, rootDark, toasts, staleDocs>>

\* the Refresh button of DocumentsPanel
RefreshClick ==
  /\ Panel = "documents"
  /\ loadingDocs' = RefreshLoading(token, TRUE)
  /\ net' = refresh(net, token, TRUE)
  /\ UNCHANGED <<variant, authVars, crashed, view, authView, tab, docs, panelVars,
                 dark, rootDark, toasts, staleDocs>>

\* (a variant that sends the failed listing request again)
ListRetry(q, r) == Append(q, r)

\* what the docs owner does when a listing fails: the sidebar build catches and
\* ignores the error, the tabs build lets the rejection go unhandled
ListFailed(q, r) == q

\* history: the listing requests sent before the i-th are overtaken by it
Overtake(q, i) ==
  [j \in 1..Len(q) |->
     IF j < i /\ q[j].kind = "list" THEN [q[j] EXCEPT !.overtaken = TRUE] ELSE q[j]]

\* refresh() after its await
ListSettled(i, resp) ==
  /\ i \in 1..Len(net) /\ net[i].kind = "list"
  /\ resp \in ErrorResponses \cup ListOk(net[i].token.v) \cup ListOkTwo(net[i].token.v)
  /\ LET r == net[i]
         res == Api(resp)
         wrote == r.dlive /\ res.ok
     IN /\ docs' = IF wrote THEN Documents(res.data) ELSE docs
        /\ loadingDocs' = IF r.dlive THEN FALSE ELSE loadingDocs
        /\ net' = IF res.ok THEN RemoveAt(IF wrote THEN Overtake(net, i) ELSE net, i)
                  ELSE ListFailed(RemoveAt(net, i), r)
        /\ staleDocs' = IF wrote THEN r.overtaken ELSE staleDocs
  /\ UNCHANGED <<variant, authVars, crashed, view, authView, tab, panelVars,
                 dark, rootDark, toasts>>

(***************************************************************************)
(* UploadPanel of the tabs build (one file).                               *)
(***************************************************************************)
FileNames == {"f1"}

UploadData(fn) == [kind |-> "object", filename |-> fn]
UploadOk(f) == { HttpOk(TRUE, UploadData(Str(f))), HttpOk(FALSE, UploadData(Undefined)) }
Filename(data) == IF data.kind = "object" THEN data.filename ELSE Undefined
\* a successful response whose JSON body is null
UploadOkNull == { HttpOk(TRUE, [kind |-> "null", filename |-> Undefined]) }
\* the message of the TypeError res.filename throws on null
NullFilenameMessage == "Cannot read properties of null (reading 'filename')"

\* the file input: setFile(e.target.files?.[0] || null); "" stands for null
SetFile(f) ==
  /\ variant = "tabs" /\ Panel = "upload"
  /\ f \in FileNames \cup {""} /\ f # uploadPanel.file
  /\ uploadPanel' = [uploadPanel EXCEPT !.file = f]
  /\ UNCHANGED <<variant, authVars, crashed, view, authView, tab, docs, loadingDocs,
                 files, heap, documentsPanel, comparePanel, chatPanel,
                 dark, rootDark, toasts, net, staleDocs>>

\* handleUpload up to its await (the button is disabled without a file and
\* while uploading)
HandleUpload ==
  /\ variant = "tabs" /\ Panel = "upload"
  /\ uploadPanel.file # "" /\ uploadPanel.status # "uploading"
  /\ uploadPanel' = [uploadPanel EXCEPT !.status = "uploading", !.progress = 10]
  /\ net' = Append(net, Req("upload", "/api/documents/upload", token,
                            uploadPanel.file, 0, 0))
  /\ UNCHANGED <<variant, authVars, crashed, view, authView, tab, docs, loadingDocs,
                 files, heap, documentsPanel, comparePanel, chatPanel,
                 dark, rootDark, toasts, staleDocs>>

\* handleUpload after its await; onDone is Dashboard.refresh.  On the JSON
\* value null, reading res.filename throws after setProgress(100) and
\* setStatus('done'): the catch block sets the status and the message, and
\* onDone is not reached
UploadSettled(i, resp) ==
  /\ variant = "tabs"
  /\ i \in 1..Len(net) /\ net[i].kind = "upload"
  /\ resp \in ErrorResponses \cup UploadOk(net[i].arg) \cup UploadOkNull
  /\ LET r == net[i]
         res == Api(resp)
         threw == res.ok /\ res.data.kind = "null"
         done == res.ok /\ ~threw
         rest == RemoveAt(net, i)
     IN /\ uploadPanel' =
             IF ~r.live THEN uploadPanel
             ELSE IF done
                  THEN [uploadPanel EXCEPT
                          !.progress = 100, !.status = "done",
                          !.message = "Uploaded " \o ToStr(Filename(res.data))]
                  ELSE IF threw
                       THEN [uploadPanel EXCEPT !.progress = 100, !.status = "error",
                                                !.message = NullFilenameMessage]
                       ELSE [uploadPanel EXCEPT !.status = "error",
                                                !.message = res.message]
        /\ loadingDocs' = IF done THEN RefreshLoading(r.token, r.dlive) ELSE loadingDocs
        /\ net' = IF done THEN refresh(rest, r.token, r.dlive) ELSE rest
  /\ UNCHANGED <<variant, authVars, crashed, view, authView, tab, docs,
                 files, heap, documentsPanel, comparePanel, chatPanel,
                 dark, rootDark, toasts, staleDocs>>

(***************************************************************************)
(* useToasts (sidebar build).                                              *)
(***************************************************************************)
\* the ids Math.random().toString(36).slice(2) yields; pushToast takes the
\* draw as it comes and compares it with nothing
ToastIds == 1..MaxToasts

\* (a variant that puts the new toast in front of the others)
pushToastInFront(q, id, t) ==
  <<[id |-> id, title |-> t.title, description |-> t.description]>> \o q

\* setToasts((s) => [...s, { id, ...t }])
pushToast(q, id, t) == Append(q, [id |-> id, title |-> t.title, description |-> t.description])

\* s.filter((t) => t.id !== id)
dismiss(q, id) == LET Other(t) == t.id # id IN SelectSeq(q, Other)

\* Toast.Root's onOpenChange(false): the toast timed out or was swiped away
Dismiss(id) ==
  /\ variant = "sidebar" /\ view = "dashboard"
  /\ \E k \in 1..Len(toasts) : toasts[k].id = id
  /\ toasts' = dismiss(toasts, id)
  /\ UNCHANGED <<variant, authVars, crashed, view, authView, tab, docs, loadingDocs,
                 panelVars, dark, rootDark, net, staleDocs>>

(***************************************************************************)
(* UploadPanel of the sidebar build (a list of files).  The items of a     *)
(* selection are objects shared by the list in state and by the closure of *)
(* every run started on it: heap[g] holds the objects of selection g,      *)
(* files is the selection the state shows (0: the empty list).             *)
(***************************************************************************)
NewItems(n) == [k \in 1..n |-> [f |-> k, progress |-> 0, status |-> "queued"]]

\* a selection no run refers to (the one shown is replaced, so it may be reused)
FreeSel(q) ==
  CHOOSE g \in 1..MaxSel :
    /\ \A j \in 1..Len(q) : q[j].sel # g
    /\ \A h \in 1..(g - 1) : \E j \in 1..Len(q) : q[j].sel = h

\* onDrop / onInput with n files (an empty list changes nothing)
SelectFiles(n) ==
  /\ variant = "sidebar" /\ Panel = "upload"
  /\ n \in 1..MaxFiles
  /\ LET g == FreeSel(net)
     IN /\ files' = g
        /\ heap' = Collect([heap EXCEPT ![g] = NewItems(n)], g, net)
  /\ UNCHANGED <<variant, authVars, crashed, view, authView, tab, docs, loadingDocs,
                 uploadPanel, documentsPanel, comparePanel, chatPanel,
                 dark, rootDark, toasts, net, staleDocs>>

FileName(item) == IF item.f = 1 THEN "f1" ELSE "f2"

\* the loop body of startUpload up to its await, for item k of selection g
BeginItem(h, g, k) ==
  [h EXCEPT ![g][k] = [@ EXCEPT !.status = "uploading", !.progress = 10]]

\* the Start upload button: startUpload up to its first await
StartUpload ==
  /\ variant = "sidebar" /\ Panel = "upload"
  /\ files # 0
  /\ heap' = BeginItem(heap, files, 1)
  /\ net' = Append(net, Req("upload", "/api/documents/upload", token,
                            FileName(heap[files][1]), files, 1))
  /\ UNCHANGED <<variant, authVars, crashed, view, authView, tab, docs, loadingDocs,
                 uploadPanel, files, documentsPanel, comparePanel, chatPanel,
                 dark, rootDark, toasts, staleDocs>>

\* (a variant whose loop ends at the first file that fails)
RunGoesOnIfOk(idx, n, ok) == idx < n /\ ok

\* the loop of startUpload goes on to the next file: i < files.length after
\* i++, whatever the outcome of the file (the catch block does not leave the loop)
RunGoesOn(idx, n, ok) == idx < n

\* startUpload after an await: the rest of the loop body, then the next item
\* up to its await or, after the last item, onDone (App.refresh)
RunSettled(i, resp, id) ==
  /\ variant = "sidebar"
  /\ i \in 1..Len(net) /\ net[i].kind = "upload"
  /\ resp \in ErrorResponses \cup UploadOk(net[i].arg)
  /\ id \in ToastIds /\ Len(toasts) < MaxToasts
  /\ LET r == net[i]
         res == Api(resp)
         rest == RemoveAt(net, i)
         g == r.sel
         n == Len(heap[g])
         more == RunGoesOn(r.idx, n, res.ok)
         done == [heap EXCEPT ![g][r.idx] =
                    IF res.ok THEN [@ EXCEPT !.progress = 100, !.status = "done"]
                    ELSE [@ EXCEPT !.status = "error"]]
     IN /\ toasts' = pushToast(toasts, id,
                       IF res.ok
                       THEN [title |-> "Upload complete", description |-> r.arg]
                       ELSE [title |-> "Upload failed", description |-> res.message])
        /\ files' = IF r.live THEN g ELSE files
        /\ net' = IF more
                  THEN Append(rest, [r EXCEPT !.idx = r.idx + 1,
                                              !.arg = FileName(heap[g][r.idx + 1])])
                  ELSE refresh(rest, r.token, TRUE)
        /\ heap' = Collect(IF more THEN BeginItem(done, g, r.idx + 1) ELSE done,
                           files', net')
        /\ loadingDocs' = IF more THEN loadingDocs ELSE RefreshLoading(r.token, TRUE)
  /\ UNCHANGED <<variant, authVars, crashed, view, authView, tab, docs,
                 uploadPanel, documentsPanel, comparePanel, chatPanel, dark, rootDark,
                 staleDocs>>

(***************************************************************************)
(* DocumentsPanel.                                                         *)
(***************************************************************************)
DocIds == { docs[k].id : k \in 1..Len(docs) }

SummaryData(x) == [kind |-> "object", summary |-> x]
SummarizeOk(id) == { HttpOk(TRUE, SummaryData(Str("summary of " \o id))) }
Summary(data) == IF data.kind = "object" THEN data.summary ELSE Undefined

\* history: the click on the button of document id supersedes the requests
\* the mounted panel has in flight for other documents
Supersede(q, id) ==
  [j \in 1..Len(q) |->
     IF q[j].kind = "summarize" /\ q[j].live
     THEN [q[j] EXCEPT !.superseded = (q[j].arg # id)] ELSE q[j]]

\* a Summarize button (rendered for each listed document once loading is over;
\* it is never disabled): summarize(id) up to its await
Summarize(id) ==
  /\ Panel = "documents" /\ ~loadingDocs /\ id \in DocIds
  /\ documentsPanel' = [busyId |-> id, summary |-> Str("")]
  /\ net' = Append(Supersede(net, id),
                   Req("summarize", "/api/documents/summarize", token, id, 0, 0))
  /\ UNCHANGED <<variant, authVars, crashed, view, authView, tab, docs, loadingDocs,
                 uploadPanel, files, heap, comparePanel, chatPanel,
                 dark, rootDark, toasts, staleDocs>>

\* (a variant without the finally block)
SummarizedStillBusy(dp, x) == [dp EXCEPT !.summary = x]

\* setSummary(x) and, in the finally block, setBusyId('')
Summarized(dp, x) == [dp EXCEPT !.summary = x, !.busyId = ""]

\* summarize(id) after its await
SummarizeSettled(i, resp) ==
  /\ i \in 1..Len(net) /\ net[i].kind = "summarize"
  /\ resp \in ErrorResponses \cup SummarizeOk(net[i].arg)
  /\ LET r == net[i]
         res == Api(resp)
     IN /\ documentsPanel' =
             IF ~r.live THEN documentsPanel
             ELSE Summarized(documentsPanel,
                             IF res.ok THEN Summary(res.data)
                             ELSE Str("Error: " \o res.message))
        /\ net' = RemoveAt(net, i)
  /\ UNCHANGED <<variant, authVars, crashed, view, authView, tab, docs, loadingDocs,
                 uploadPanel, files, heap, comparePanel, chatPanel,
                 dark, rootDark, toasts, staleDocs>>

(***************************************************************************)
(* ComparePanel.                                                           *)
(***************************************************************************)
Modes == {"side", "overlay", "summary"}

CompareData == [kind |-> "object", error |-> Undefined, tag |-> "comparison"]
CompareOk == { HttpOk(TRUE, CompareData) }
ErrorResult(m) == [kind |-> "object", error |-> Str(m), tag |-> ""]

\* the two selects: an option per listed document, and "Select..."
SetLeft(id) ==
  /\ Panel = "compare" /\ id \in DocIds \cup {""} /\ id # comparePanel.left
  /\ comparePanel' = [comparePanel EXCEPT !.left = id]
  /\ UNCHANGED <<variant, authVars, crashed, view, authView, tab, docs, loadingDocs,
                 uploadPanel, files, heap, documentsPanel, chatPanel,
                 dark, rootDark, toasts, net, staleDocs>>

SetRight(id) ==
  /\ Panel = "compare" /\ id \in DocIds \cup {""} /\ id # comparePanel.right
  /\ comparePanel' = [comparePanel EXCEPT !.right = id]
  /\ UNCHANGED <<variant, authVars, crashed, view, authView, tab, docs, loadingDocs,
                 uploadPanel, files, heap, documentsPanel, chatPanel,
                 dark, rootDark, toasts, net, staleDocs>>

\* the display mode buttons (sidebar build)
SetMode(m) ==
  /\ variant = "sidebar" /\ Panel = "compare" /\ m \in Modes /\ m # comparePanel.mode
  /\ comparePanel' = [comparePanel EXCEPT !.mode = m]
  /\ UNCHANGED <<variant, authVars, crashed, view, authView, tab, docs, loadingDocs,
                 uploadPanel, files, heap, documentsPanel, chatPanel,
                 dark, rootDark, toasts, net, staleDocs>>

\* (a variant whose button stays enabled while loading)
CompareEnabledWhileLoading(cp) == cp.left # "" /\ cp.right # ""

\* the Compare button: disabled={!left || !right || loading}
CompareEnabled(cp) == cp.left # "" /\ cp.right # "" /\ ~cp.loading

\* ComparePanel.submit up to its await (the form is submitted by its button)
CompareSubmit ==
  /\ Panel = "compare"
  /\ CompareEnabled(comparePanel)
  /\ comparePanel' = [comparePanel EXCEPT !.loading = TRUE, !.result = NoResult]
  /\ net' = Append(net, Req("compare", "/api/documents/compare", token,
                            comparePanel.left \o "|" \o comparePanel.right, 0, 0))
  /\ UNCHANGED <<variant, authVars, crashed, view, authView, tab, docs, loadingDocs,
                 uploadPanel, files, heap, documentsPanel, chatPanel,
                 dark, rootDark, toasts, staleDocs>>

\* ComparePanel.submit after its await
CompareSettled(i, resp) ==
  /\ i \in 1..Len(net) /\ net[i].kind = "compare"
  /\ resp \in ErrorResponses \cup CompareOk
  /\ LET r == net[i]
         res == Api(resp)
     IN /\ comparePanel' =
             IF ~r.live THEN comparePanel
             ELSE [comparePanel EXCEPT
                     !.loading = FALSE,
                     !.result = IF res.ok THEN res.data ELSE ErrorResult(res.message)]
        /\ net' = RemoveAt(net, i)
  /\ UNCHANGED <<variant, authVars, crashed, view, authView, tab, docs, loadingDocs,
                 uploadPanel, files, heap, documentsPanel, chatPanel,
                 dark, rootDark, toasts, staleDocs>>

(***************************************************************************)
(* ChatPanel.  The input is a sequence of characters.                      *)
(***************************************************************************)
Inputs == { <<>>, <<" ">>, <<"h", "i">> }

IsSpace(c) == c = " "

RECURSIVE TrimStart(_)
TrimStart(s) == IF s # <<>> /\ IsSpace(Head(s)) THEN TrimStart(Tail(s)) ELSE s

RECURSIVE TrimEnd(_)
TrimEnd(s) == IF s # <<>> /\ IsSpace(s[Len(s)]) THEN TrimEnd(SubSeq(s, 1, Len(s) - 1))
              ELSE s

\* (a variant that trims nothing)
TrimNothing(s) == s

\* String.prototype.trim
Trim(s) == TrimEnd(TrimStart(s))

RECURSIVE Text(_)
Text(s) == IF s = <<>> THEN "" ELSE Head(s) \o Text(Tail(s))

ChatData(a, src) == [kind |-> "object", answer |-> a, sources |-> src]
ChatOk(q) == { HttpOk(TRUE, ChatData(Str("answer to " \o q), <<"clause">>)) }
Answer(data) == IF data.kind = "object" THEN data.answer ELSE Undefined
Sources(data) == IF data.kind = "object" THEN data.sources ELSE <<>>

SetInput(s) ==
  /\ Panel = "chat" /\ s \in Inputs /\ s # chatPanel.input
  /\ chatPanel' = [chatPanel EXCEPT !.input = s]
  /\ UNCHANGED <<variant, authVars, crashed, view, authView, tab, docs, loadingDocs,
                 uploadPanel, files, heap, documentsPanel, comparePanel,
                 dark, rootDark, toasts, net, staleDocs>>

\* ChatPanel.send up to its await: the panel state it leaves and the requests
\* it issues (a blank input returns at once)
send(cp, tk) ==
  IF Trim(cp.input) = <<>> THEN [panel |-> cp, reqs |-> <<>>]
  ELSE [panel |-> [cp EXCEPT !.input = <<>>, !.busy = TRUE],
        reqs |-> <<Req("chat", "/api/chat", tk, Text(cp.input), 0, 0)>>]

\* the Send button / Enter in the input
Send ==
  /\ Panel = "chat" /\ ~chatPanel.busy
  /\ Len(chatPanel.messages) < MaxTurns
  /\ LET s == send(chatPanel, token)
     IN chatPanel' = s.panel /\ net' = net \o s.reqs
  /\ UNCHANGED <<variant, authVars, crashed, view, authView, tab, docs, loadingDocs,
                 uploadPanel, files, heap, documentsPanel, comparePanel,
                 dark, rootDark, toasts, staleDocs>>

\* (a variant that puts the new turn before the others)
AnsweredFirst(cp, turn) == [cp EXCEPT !.messages = <<turn>> \o @, !.busy = FALSE]

\* (a variant without the finally block)
AnsweredStillBusy(cp, turn) == [cp EXCEPT !.messages = Append(@, turn)]

\* setMessages(m => [...m, turn]) and, in the finally block, setBusy(false)
Answered(cp, turn) == [cp EXCEPT !.messages = Append(@, turn), !.busy = FALSE]

\* ChatPanel.send after its await
ChatSettled(i, resp) ==
  /\ i \in 1..Len(net) /\ net[i].kind = "chat"
  /\ resp \in ErrorResponses \cup ChatOk(net[i].arg)
  /\ LET r == net[i]
         res == Api(resp)
         turn == IF res.ok
                 THEN [q |-> r.arg, a |-> Answer(res.data), sources |-> Sources(res.data)]
                 ELSE [q |-> r.arg, a |-> Str("Error: " \o res.message), sources |-> <<>>]
     IN /\ chatPanel' =
             IF ~r.live THEN chatPanel
             ELSE Answered(chatPanel, turn)
        /\ net' = RemoveAt(net, i)
  /\ UNCHANGED <<variant, authVars, crashed, view, authView, tab, docs, loadingDocs,
                 uploadPanel, files, heap, documentsPanel, comparePanel,
                 dark, rootDark, toasts, staleDocs>>

(***************************************************************************)
(* Header (sidebar build): the theme button, setDark(!dark) and the effect.*)
(***************************************************************************)
ToggleTheme ==
  /\ variant = "sidebar" /\ view = "dashboard"
  /\ dark' = ~dark
  /\ rootDark' = dark'
  /\ ls' = ThemeEffect(ls, dark')
  /\ UNCHANGED <<variant, token, user, crashed, view, authView, tab, docs, loadingDocs,
                 panelVars, toasts, net, staleDocs>>

(***************************************************************************)
(* The specifications.  Each one fixes the events the environment produces *)
(* and the responses the server gives; the handlers are the same in all.   *)
(***************************************************************************)
\* every response the server may give to a request of each kind; the settling
\* action keeps those that answer its request
ListResponses == FailResponses \cup UNION { ListOk(tk) : tk \in Tokens \cup {"undefined"} }
UploadResponses == FailResponses \cup UNION { UploadOk(f) : f \in {"f1", "f2"} }
SummarizeResponses ==
  FailResponses \cup UNION { SummarizeOk(Doc(tk, "a").id) : tk \in Tokens }
ChatResponses == FailResponses \cup UNION { ChatOk(Text(s)) : s \in Inputs }
ListedIds == { Doc(tk, "a").id : tk \in Tokens }

\* the user acts only while no request is in flight
Quiet == net = <<>>
\* every toast is dismissed before the next upload settles
NoToast == toasts = <<>>
\* the user acts while fewer than MaxInflight requests are in flight
Room == Len(net) < MaxInflight
\* Math.random returns a value it has not returned for a toast of the queue
NewDraw(id) == \A k \in 1..Len(toasts) : toasts[k].id # id

\* the request in flight settles, with any response that may answer it
Settle ==
  \/ \E resp \in FailResponses \cup AuthOk : AuthSettled(1, resp)
  \/ \E resp \in ListResponses : ListSettled(1, resp)
  \/ \E resp \in UploadResponses : UploadSettled(1, resp)
  \/ \E resp \in UploadResponses : NoToast /\ RunSettled(1, resp, 1)
  \/ \E resp \in SummarizeResponses : SummarizeSettled(1, resp)
  \/ \E resp \in FailResponses \cup CompareOk : CompareSettled(1, resp)
  \/ \E resp \in ChatResponses : ChatSettled(1, resp)

\* a toast times out
Timeout == \E id \in ToastIds : Dismiss(id)

\* Spec: every handler of both builds, one request at a time
Next ==
  \/ Reload
  \/ \E b \in BOOLEAN : SetIsLogin(b)
  \/ Quiet /\ Submit
  \/ Logout
  \/ \E t \in TabIds("sidebar") : SetTab(t)
  \/ Quiet /\ RefreshClick
  \/ \E f \in FileNames \cup {""} : SetFile(f)
  \/ Quiet /\ HandleUpload
  \/ \E n \in 1..MaxFiles : SelectFiles(n)
  \/ Quiet /\ StartUpload
  \/ \E id \in ListedIds : Quiet /\ Summarize(id)
  \/ \E id \in ListedIds \cup {""} : SetLeft(id)
  \/ \E id \in ListedIds \cup {""} : SetRight(id)
  \/ \E m \in Modes : SetMode(m)
  \/ Quiet /\ CompareSubmit
  \/ \E s \in Inputs : SetInput(s)
  \/ Quiet /\ Send
  \/ ToggleTheme
  \/ Settle
  \/ Timeout

Spec == Init /\ [][Next]_vars

\* SpecLive: Spec, where every request in flight settles in the end and every
\* toast times out
SpecLive == Init /\ [][Next]_vars /\ WF_vars(Settle) /\ WF_vars(Timeout)

\* SpecDocs: the sign-in, the tab buttons and the document listing,
\* with up to MaxInflight requests in flight at once
NextDocs ==
  \/ Reload
  \/ Room /\ Submit
  \/ \E i \in 1..MaxInflight, resp \in FailResponses \cup AuthOk :
        AuthSettled(i, resp)
  \/ Logout
  \/ \E t \in {"upload", "documents"} : SetTab(t)
  \/ Room /\ RefreshClick
  \/ \E i \in 1..MaxInflight, resp \in ListResponses : ListSettled(i, resp)

SpecDocs == Init /\ [][NextDocs]_vars

\* SpecApi: the sign-in and the document listing, one request at a time,
\* answered by every failure api() may meet
NextApi ==
  \/ Reload
  \/ \E b \in BOOLEAN : SetIsLogin(b)
  \/ Quiet /\ Submit
  \/ \E resp \in ErrorResponses \cup AuthOk : AuthSettled(1, resp)
  \/ Logout
  \/ \E resp \in ErrorResponses \cup ListResponses : ListSettled(1, resp)

SpecApi == Init /\ [][NextApi]_vars

\* the login/register responses of the accounts
SignIns == { HttpOk(TRUE, AuthData(Str(tk), UserOf(tk))) : tk \in Tokens }

\* SpecChat: the sign-in, the tab buttons of the chat and compare panels and
\* the chat, with up to MaxInflight requests in flight at once
NextChat ==
  \/ Room /\ Submit
  \/ \E i \in 1..MaxInflight, resp \in SignIns : AuthSettled(i, resp)
  \/ \E t \in {"compare", "chat"} : SetTab(t)
  \/ \E i \in 1..MaxInflight, resp \in ListResponses : ListSettled(i, resp)
  \/ \E s \in Inputs : SetInput(s)
  \/ Room /\ Send
  \/ \E i \in 1..MaxInflight, resp \in ChatResponses : ChatSettled(i, resp)

SpecChat == Init /\ [][NextChat]_vars

\* SpecCompare: the sign-in, the tab buttons of the compare and chat panels
\* and the comparison, with up to MaxInflight requests in flight at once
NextCompare ==
  \/ Room /\ Submit
  \/ \E i \in 1..MaxInflight, resp \in SignIns : AuthSettled(i, resp)
  \/ \E t \in {"compare", "chat"} : SetTab(t)
  \/ \E i \in 1..MaxInflight, resp \in ListResponses : ListSettled(i, resp)
  \/ \E id \in ListedIds \cup {""} : SetLeft(id)
  \/ \E id \in ListedIds \cup {""} : SetRight(id)
  \/ \E m \in Modes : SetMode(m)
  \/ Room /\ CompareSubmit
  \/ \E i \in 1..MaxInflight, resp \in FailResponses \cup CompareOk :
        CompareSettled(i, resp)

SpecCompare == Init /\ [][NextCompare]_vars

\* SpecSummary: the sign-in, the tab buttons of the documents and compare
\* panels, listings of up to two documents and the Summarize buttons, with up
\* to MaxInflight requests in flight at once
TwoListedIds == { Doc(tk, n).id : tk \in Tokens, n \in {"a", "b"} }
NextSummary ==
  \/ Room /\ Submit
  \/ \E i \in 1..MaxInflight, resp \in SignIns : AuthSettled(i, resp)
  \/ \E t \in {"documents", "compare"} : SetTab(t)
  \/ \E i \in 1..MaxInflight :
       \E resp \in FailResponses \cup UNION { ListOkTwo(tk) : tk \in Tokens } :
         ListSettled(i, resp)
  \/ \E id \in TwoListedIds : Room /\ Summarize(id)
  \/ \E i \in 1..MaxInflight :
       \E resp \in FailResponses \cup UNION { SummarizeOk(id) : id \in TwoListedIds } :
         SummarizeSettled(i, resp)

SpecSummary == Init /\ [][NextSummary]_vars

\* SpecUpload: the sign-in, the tab buttons of the upload and documents panels
\* and the upload of one file (tabs build), answered also by a body null, with
\* up to MaxInflight requests in flight at once
NextUpload ==
  \/ Room /\ Submit
  \/ \E i \in 1..MaxInflight, resp \in SignIns : AuthSettled(i, resp)
  \/ \E t \in {"upload", "documents"} : SetTab(t)
  \/ \E i \in 1..MaxInflight, resp \in ListResponses : ListSettled(i, resp)
  \/ \E f \in FileNames \cup {""} : SetFile(f)
  \/ Room /\ HandleUpload
  \/ \E i \in 1..MaxInflight, resp \in UploadResponses \cup UploadOkNull :
        UploadSettled(i, resp)

SpecUpload == Init /\ [][NextUpload]_vars

\* SpecRun: the sign-in of one account, the tab buttons of the upload and
\* documents panels, the selection of files and the multi-file runs (sidebar
\* build) and the toasts, with up to MaxInflight requests in flight at once;
\* an upload succeeds or fails, a listing succeeds, and every toast is
\* dismissed before the next upload settles
RunResponses == { NetworkError } \cup UNION { UploadOk(f) : f \in {"f1", "f2"} }
NextRun ==
  \/ Room /\ Submit
  \/ \E i \in 1..MaxInflight :
       AuthSettled(i, HttpOk(TRUE, AuthData(Str("t1"), UserOf("t1"))))
  \/ \E t \in {"upload", "documents"} : SetTab(t)
  \/ \E i \in 1..MaxInflight : ListSettled(i, HttpOk(TRUE, ListData(FALSE, <<>>)))
  \/ \E n \in 1..MaxFiles : SelectFiles(n)
  \/ Room /\ StartUpload
  \/ \E i \in 1..MaxInflight, resp \in RunResponses : NoToast /\ RunSettled(i, resp, 1)
  \/ \E id \in ToastIds : Dismiss(id)

SpecRun == Init /\ [][NextRun]_vars

\* SpecToasts: the sign-in of one account, the upload tab, the multi-file
\* runs (sidebar build), one request at a time, and the toast queue with up
\* to MaxToasts toasts; the random generator of the page does not return the
\* same value twice while a toast of the earlier draw is in the queue
NextToasts ==
  \/ Reload
  \/ Quiet /\ Submit
  \/ AuthSettled(1, HttpOk(TRUE, AuthData(Str("t1"), UserOf("t1"))))
  \/ Logout
  \/ SetTab("upload")
  \/ ListSettled(1, HttpOk(TRUE, ListData(FALSE, <<>>)))
  \/ \E n \in 1..MaxFiles : SelectFiles(n)
  \/ Quiet /\ StartUpload
  \/ \E resp \in RunResponses, id \in ToastIds : NewDraw(id) /\ RunSettled(1, resp, id)
  \/ \E id \in ToastIds : Dismiss(id)

SpecToasts == Init /\ [][NextToasts]_vars

(***************************************************************************)
(* What the user sees: the texts rendered in the places that show the      *)
(* outcome of a request.                                                   *)
(***************************************************************************)
\* AuthView: {error && <div>{error}</div>}
AuthTexts == IF view = "auth" /\ authView.error # "" THEN {authView.error} ELSE {}

\* UploadPanel (tabs): {status !== 'idle' && ... <div>{message}</div>}
UploadTexts ==
  IF variant = "tabs" /\ Panel = "upload" /\ uploadPanel.status # "idle"
  THEN {uploadPanel.message} ELSE {}

\* DocumentsPanel: {summary && ... <div>{summary}</div>}
SummaryTexts ==
  IF Panel = "documents" /\ Truthy(documentsPanel.summary)
  THEN {ToStr(documentsPanel.summary)} ELSE {}

\* ComparePanel: the tabs build renders result.error, the sidebar build has no
\* branch for it
CompareTexts ==
  IF variant = "tabs" /\ Panel = "compare" /\ comparePanel.result.kind = "object"
     /\ Truthy(comparePanel.result.error)
  THEN {ToStr(comparePanel.result.error)} ELSE {}

\* ComparePanel: the comparison output is on the screen.  The tabs build renders
\* it for a result without error, the sidebar build for every result (in each
\* mode: the two texts, the added and removed spans, the confidence bar)
CompareOutputShown ==
  /\ Panel = "compare" /\ comparePanel.result.kind # "null"
  /\ variant = "tabs" => ~Truthy(comparePanel.result.error)

\* ChatPanel: <div>{m.a}</div> of every turn
ChatTexts ==
  IF Panel = "chat"
  THEN { ToStr(chatPanel.messages[k].a) :
           k \in { j \in 1..Len(chatPanel.messages) : Truthy(chatPanel.messages[j].a) } }
  ELSE {}

\* the toasts (sidebar): {t.description && <Toast.Description>...}
ToastTexts ==
  IF variant = "sidebar" /\ view = "dashboard"
  THEN { toasts[k].description : k \in { j \in 1..Len(toasts) : toasts[j].description # "" } }
  ELSE {}

Texts == AuthTexts \cup UploadTexts \cup SummaryTexts \cup CompareTexts
           \cup ChatTexts \cup ToastTexts

\* the message m of a failure is on the screen, as it is or after 'Error: '
ErrorShown(m) == m \in Texts \/ ("Error: " \o m) \in Texts

(***************************************************************************)
(* Steps and what they send.                                               *)
(***************************************************************************)
\* the responses that may answer the request r
Answers(r) ==
  FailResponses \cup
    (CASE r.kind = "auth" -> AuthOk
       [] r.kind = "list" -> ListOk(r.token.v)
       [] r.kind = "upload" -> UploadOk(r.arg)
       [] r.kind = "summarize" -> SummarizeOk(r.arg)
       [] r.kind = "compare" -> CompareOk
       [] OTHER -> ChatOk(r.arg))

\* the step in which the i-th request in flight settles with the response resp
Settles(i, resp) ==
  \/ AuthSettled(i, resp)
  \/ ListSettled(i, resp)
  \/ UploadSettled(i, resp)
  \/ \E id \in ToastIds : RunSettled(i, resp, id)
  \/ SummarizeSettled(i, resp)
  \/ CompareSettled(i, resp)
  \/ ChatSettled(i, resp)

\* a request as it goes over the wire, without the continuation's bookkeeping
WireOf(r) == [kind |-> r.kind, path |-> r.path, token |-> r.token,
              authorization |-> r.authorization, arg |-> r.arg,
              sel |-> r.sel, idx |-> r.idx]
Wire(q) == [j \in 1..Len(q) |-> WireOf(q[j])]

\* the steps of a user that send a request when they are taken
UserSends ==
  \/ Reload \/ Submit \/ RefreshClick \/ HandleUpload \/ StartUpload
  \/ \E id \in ListedIds : Summarize(id)
  \/ CompareSubmit \/ Send

\* the two keys of the auth store
AuthKeys(store) == <<GetItem(store, "js_token"), GetItem(store, "js_user")>>

(***************************************************************************)
(* Properties.                                                             *)
(***************************************************************************)
\* C1: once App has rendered, the authentication screen is shown exactly when
\* the token is falsy and the dashboard exactly when it is truthy; AuthView and
\* the panels are never mounted together and no panel is mounted without a token.
ViewMatchesToken ==
  ~crashed =>
    /\ view \in {"auth", "dashboard"}
    /\ (view = "auth") <=> ~Truthy(token)
    /\ (view = "dashboard") <=> Truthy(token)
    /\ view = "dashboard" => authView = AuthView0
    /\ view = "auth" =>
         /\ uploadPanel = UploadPanel0 /\ files = 0
         /\ documentsPanel = DocumentsPanel0 /\ comparePanel = ComparePanel0
         /\ chatPanel = ChatPanel0
    /\ Panel # "none" => Truthy(token)

\* the authentication screen is shown for a token that is falsy but not ''
AuthShownForUndefinedToken ==
  ~crashed /\ view = "auth" /\ token = Undefined /\ "js_token" \in DOMAIN ls

\* C2: whenever a request of any view fails, the message of the failure is on
\* the screen once the request has settled.
ErrorsSurfaced ==
  [][\A i \in 1..Len(net) : \A resp \in FailResponses :
       Settles(i, resp) => ErrorShown(Api(resp).message)']_vars

\* C3 as stated: the step in which a request fails sends nothing.
NothingSentOnFailure ==
  [][\A i \in 1..Len(net) : \A resp \in FailResponses :
       Settles(i, resp) => Wire(net') = Wire(RemoveAt(net, i))]_vars

\* C3: a failed request is never sent again.  The step in which a request
\* fails sends nothing, except in a multi-file run, which goes on after a failed
\* file with the upload of the next file and, after the last file, with one
\* listing request.  A step sends at most one request, and the steps that send
\* one are a user's action, a page load, a successful login, a successful
\* upload and the continuation of a run.
SendsOnlyOnTrigger ==
  [][/\ \A i \in 1..Len(net) : \A resp \in Answers(net[i]) :
          Settles(i, resp) =>
            LET r == net[i]
                rest == Wire(RemoveAt(net, i))
                ok == Api(resp).ok
                listing == WireOf(ListReq(r.token))
            IN CASE r.kind = "upload" /\ variant = "sidebar" ->
                      IF r.idx < Len(heap[r.sel])
                      THEN /\ Len(net') = Len(rest) + 1
                           /\ SubSeq(Wire(net'), 1, Len(rest)) = rest
                           /\ net'[Len(net')].kind = "upload"
                           /\ net'[Len(net')].sel = r.sel
                           /\ net'[Len(net')].idx = r.idx + 1
                      ELSE Wire(net') \in {rest, Append(rest, listing)}
                 [] r.kind = "upload" /\ variant = "tabs" ->
                      Wire(net') = IF ok THEN Append(rest, listing) ELSE rest
                 [] r.kind = "auth" ->
                      /\ ~ok => Wire(net') = rest
                      /\ ok => \/ Wire(net') = rest
                               \/ /\ Len(net') = Len(rest) + 1
                                  /\ SubSeq(Wire(net'), 1, Len(rest)) = rest
                                  /\ net'[Len(net')].kind = "list"
                 [] OTHER -> Wire(net') = rest
     /\ Len(net') <= Len(net) + 1
     /\ Len(net') > Len(net) => UserSends]_vars

\* a run went on after the upload of its first file had failed
RunWentOnAfterFailure ==
  \E g \in 1..MaxSel :
    /\ Len(heap[g]) >= 2
    /\ heap[g][1].status = "error" /\ heap[g][2].status = "uploading"
    /\ \E j \in 1..Len(net) : net[j].kind = "upload" /\ net[j].sel = g /\ net[j].idx = 2

\* C4: no failed request changes token, user, js_token or js_user; within one
\* page load they change only in the step of a successful login/register
\* response and in the step of logout, and a page load leaves the two keys alone.
AuthFrame ==
  [][/\ \A i \in 1..Len(net) : \A resp \in FailResponses :
          Settles(i, resp) =>
            token' = token /\ user' = user /\ AuthKeys(ls') = AuthKeys(ls)
     /\ (token' # token \/ user' # user \/ AuthKeys(ls') # AuthKeys(ls)) =>
          \/ \E i \in 1..Len(net) : \E resp \in AuthOk : AuthSettled(i, resp)
          \/ Logout
          \/ Reload
     /\ Reload => AuthKeys(ls') = AuthKeys(ls)]_vars

\* a panel shows an authorization failure and the session is as it was
UnauthorizedShownSessionKept ==
  /\ view = "dashboard" /\ documentsPanel.summary = Str("Error: Unauthorized")
  /\ token = Str("t1") /\ user = Obj("u1")
  /\ AuthKeys(ls) = <<Str("t1"), JSONStringify(Obj("u1"))>>

\* C5: in every state App has rendered, re-initialising useAuth from
\* localStorage succeeds and yields the token and the user held in memory.
StoreRoundTrips ==
  ~crashed =>
    /\ useAuth(ls).ok
    /\ useAuth(ls).token = token
    /\ useAuth(ls).user = user

\* C6: the step in which a login/register request succeeds with a non-empty
\* access_token T and a user U leaves token = T, user = U, js_token = T,
\* js_user = the JSON of U, and the dashboard in place of the authentication
\* screen.
LoginPostcondition ==
  [][\A i \in 1..Len(net) : \A resp \in AuthOk :
       LET data == Api(resp).data
           T == AccessToken(data)
           U == UserField(data)
       IN (AuthSettled(i, resp) /\ T.t = "string" /\ T.v # "" /\ U.t = "object") =>
            /\ token' = T /\ user' = U
            /\ GetItem(ls', "js_token") = T
            /\ GetItem(ls', "js_user") = JSONStringify(U)
            /\ JSONParse(GetItem(ls', "js_user").v) = [ok |-> TRUE, value |-> U]
            /\ view' = "dashboard" /\ authView' = AuthView0]_vars

\* the second account has just signed in
SignedIn ==
  /\ token = Str("t2") /\ user = Obj("u2") /\ view = "dashboard"
  /\ AuthKeys(ls) = <<Str("t2"), JSONStringify(Obj("u2"))>>
  /\ Len(net) = 1 /\ net[1].kind = "list" /\ net[1].token = Str("t2")

\* C7: the step of logout leaves token = '', user = null, neither js_token nor
\* js_user in localStorage and the authentication screen shown; logout applied
\* to the store it leaves changes nothing.
LogoutPostcondition ==
  [][Logout =>
       /\ token' = Str("") /\ user' = Null
       /\ {"js_token", "js_user"} \cap DOMAIN ls' = {}
       /\ view' = "auth"
       /\ logout([token |-> token', user |-> user', ls |-> ls'])
            = [token |-> token', user |-> user', ls |-> ls']]_vars

\* the user has logged out (the sidebar build keeps the documents of the session)
LoggedOut ==
  /\ view = "auth" /\ docs # <<>>
  /\ token = Str("") /\ user = Null
  /\ {"js_token", "js_user"} \cap DOMAIN ls = {}

\* C8 as stated: js_token and js_user are the only keys in localStorage.
OnlyAuthKeysStored == DOMAIN ls \subseteq {"js_token", "js_user"}

\* C8: localStorage holds no key but js_token, js_user and (sidebar build)
\* theme_dark.  A page load resets the documents, the tab, the panels and the
\* toasts, keeps the two auth keys, and keeps the theme.
StoredKeys ==
  /\ [](DOMAIN ls \subseteq {"js_token", "js_user", "theme_dark"})
  /\ [][Reload =>
          /\ docs' = <<>> /\ tab' = InitialTab(variant) /\ toasts' = <<>>
          /\ documentsPanel' = DocumentsPanel0 /\ comparePanel' = ComparePanel0
          /\ chatPanel' = ChatPanel0 /\ uploadPanel' = UploadPanel0 /\ files' = 0
          /\ AuthKeys(ls') = AuthKeys(ls)
          /\ (variant = "sidebar" /\ ~crashed') =>
               /\ dark' = dark /\ rootDark' = dark
               /\ GetItem(ls', "theme_dark") = GetItem(ls, "theme_dark")]_vars

\* a signed-in session with the light theme stored
LightThemeStored ==
  /\ DOMAIN ls = {"js_token", "js_user", "theme_dark"}
  /\ ls["theme_dark"] = "0" /\ ~dark /\ ~rootDark

\* all the characters of s are white space
Blank(s) == \A k \in 1..Len(s) : IsSpace(s[k])

\* C9 as stated: every submit sends exactly one request (and a run no upload
\* beyond its first).
OneRequestPerSubmit ==
  /\ []((Panel = "chat" /\ ~chatPanel.busy) => Len(send(chatPanel, token).reqs) = 1)
  /\ [][/\ (Submit \/ HandleUpload \/ StartUpload \/ CompareSubmit
              \/ \E id \in ListedIds : Summarize(id)) => Len(net') = Len(net) + 1
        /\ \A i \in 1..Len(net) : \A resp \in Answers(net[i]) : \A id \in ToastIds :
             RunSettled(i, resp, id) =>
               \A j \in 1..Len(net') : net'[j].kind = "upload" =>
                 \E k \in 1..Len(net) : k # i /\ WireOf(net[k]) = WireOf(net'[j])]_vars

\* C9: login/register submit, upload submit, Summarize and Compare send exactly
\* one request each; Send sends one request unless the input is blank, and then
\* none; Start upload sends the upload of the first file, and the run sends the
\* upload of each further file when the one before has settled.
RequestsPerSubmit ==
  /\ []((Panel = "chat" /\ ~chatPanel.busy) =>
          Len(send(chatPanel, token).reqs) = IF Blank(chatPanel.input) THEN 0 ELSE 1)
  /\ [][/\ (Submit \/ HandleUpload \/ StartUpload \/ CompareSubmit
              \/ \E id \in ListedIds : Summarize(id)) =>
             /\ Len(net') = Len(net) + 1
             /\ SubSeq(net', 1, Len(net)) = net
        /\ Submit => net'[Len(net')].kind = "auth"
        /\ HandleUpload => net'[Len(net')].kind = "upload"
        /\ StartUpload => net'[Len(net')].kind = "upload" /\ net'[Len(net')].idx = 1
        /\ CompareSubmit => net'[Len(net')].kind = "compare"
        /\ (\E id \in ListedIds : Summarize(id)) => net'[Len(net')].kind = "summarize"
        /\ Send => net' = net \o send(chatPanel, token).reqs
        /\ \A i \in 1..Len(net) : \A resp \in Answers(net[i]) : \A id \in ToastIds :
             RunSettled(i, resp, id) =>
               LET uploads(q) == Cardinality({ j \in 1..Len(q) : q[j].kind = "upload" })
               IN uploads(net') =
                    uploads(RemoveAt(net, i))
                      + (IF net[i].idx < Len(heap[net[i].sel]) THEN 1 ELSE 0)]_vars

\* Send can be clicked on a blank input while a run is at its second file
BlankSendAndSecondFile ==
  /\ Panel = "chat" /\ ~chatPanel.busy /\ chatPanel.input = <<" ">>
  /\ \E j \in 1..Len(net) : net[j].kind = "upload" /\ net[j].idx = 2

\* C10 as stated: every response to a listing request overwrites docs with
\* what it lists when it arrives at the component that holds docs.
EveryResponseOverwritesDocs ==
  [][\A i \in 1..Len(net) : \A resp \in Answers(net[i]) :
       (ListSettled(i, resp) /\ net[i].dlive) => docs' = Documents(Api(resp).data)]_vars

\* C10: listing requests are neither cancelled nor deduplicated.  A refresh
\* sends its own request whatever is in flight; a request leaves the network
\* only by settling (or with the page); a successful response that reaches a
\* mounted owner of docs overwrites docs, a failed one and one whose Dashboard
\* is gone leave docs as they are; nothing else writes docs.
RefreshRace ==
  /\ [](Panel = "documents" =>
          Wire(refresh(net, token, TRUE)) = Append(Wire(net), WireOf(ListReq(token))))
  /\ [][/\ RefreshClick => Wire(net') = Append(Wire(net), WireOf(ListReq(token)))
        /\ \A i \in 1..Len(net) : \A resp \in Answers(net[i]) :
             ListSettled(i, resp) =>
               docs' = IF Api(resp).ok /\ net[i].dlive
                       THEN Documents(Api(resp).data) ELSE docs
        /\ Len(SelectSeq(net', LAMBDA r : r.kind = "list"))
             < Len(SelectSeq(net, LAMBDA r : r.kind = "list")) =>
             \/ \E i \in 1..Len(net) : \E resp \in Answers(net[i]) : ListSettled(i, resp)
             \/ Reload
        /\ docs' # docs =>
             \/ \E i \in 1..Len(net) : \E resp \in Answers(net[i]) :
                  Api(resp).ok /\ ListSettled(i, resp)
             \/ Reload
             \/ variant = "tabs" /\ Logout
             \/ variant = "tabs"
                  /\ \E i \in 1..Len(net) : \E resp \in AuthOk : AuthSettled(i, resp)]_vars

\* every refresh has settled and docs hold the response to a refresh that was
\* issued before another one whose response had arrived earlier
LastArrivedWasIssuedFirst ==
  /\ staleDocs /\ view = "dashboard"
  /\ \A j \in 1..Len(net) : net[j].kind # "list"

\* C11: tab holds one of the declared tab ids of the build and starts at the
\* declared initial tab; the only panel that holds state or awaits a response
\* is the one the router mounts for tab; and tab changes only by a tab button
\* (or starts again at the initial tab when the component that holds it is
\* mounted again: a page load, and in the tabs build a new Dashboard).
TabRouter ==
  /\ tab = IF variant = "tabs" THEN "upload" ELSE "dashboard"
  /\ [](/\ tab \in IF variant = "tabs"
                   THEN {"upload", "documents", "compare", "chat"}
                   ELSE {"dashboard", "upload", "documents", "compare", "chat",
                         "analytics"}
        /\ (uploadPanel # UploadPanel0 \/ files # 0) => Panel = "upload"
        /\ documentsPanel # DocumentsPanel0 => Panel = "documents"
        /\ comparePanel # ComparePanel0 => Panel = "compare"
        /\ chatPanel # ChatPanel0 => Panel = "chat"
        /\ \A j \in 1..Len(net) :
             (net[j].live /\ net[j].kind \in {"upload", "summarize", "compare", "chat"})
               => Panel = (CASE net[j].kind = "upload" -> "upload"
                             [] net[j].kind = "summarize" -> "documents"
                             [] net[j].kind = "compare" -> "compare"
                             [] OTHER -> "chat"))
  /\ [][tab' # tab =>
          \/ SetTab(tab')
          \/ /\ tab' = IF variant = "tabs" THEN "upload" ELSE "dashboard"
             /\ \/ Reload
                \/ variant = "tabs" /\ Logout
                \/ variant = "tabs"
                     /\ \E i \in 1..Len(net) : \E resp \in AuthOk : AuthSettled(i, resp)]_vars

\* the analytics tab was opened while the documents panel awaited a summary
AnalyticsOpenedOverSummary ==
  /\ variant = "sidebar" /\ view = "dashboard" /\ tab = "analytics"
  /\ documentsPanel = DocumentsPanel0
  /\ \E j \in 1..Len(net) : net[j].kind = "summarize" /\ ~net[j].live

\* C12: a tab button resets the state of every panel to its initial value (the
\* panel left loses its state, so coming back finds it initial) and leaves
\* token, user, localStorage and docs as they are; a response to a request of
\* a panel that has been left changes no panel.
PanelStateEphemeral ==
  [][/\ \A t \in {"dashboard", "upload", "documents", "compare", "chat", "analytics"} :
          SetTab(t) =>
            /\ chatPanel' = ChatPanel0 /\ documentsPanel' = DocumentsPanel0
            /\ comparePanel' = ComparePanel0
            /\ uploadPanel' = UploadPanel0 /\ files' = 0
            /\ token' = token /\ user' = user /\ ls' = ls /\ docs' = docs
     /\ \A i \in 1..Len(net) : \A resp \in Answers(net[i]) :
          (Settles(i, resp) /\ ~net[i].live
             /\ net[i].kind \in {"upload", "summarize", "compare", "chat"}) =>
            UNCHANGED <<uploadPanel, files, documentsPanel, comparePanel, chatPanel>>]_vars

\* the chat panel was left with a question pending and opened again: it is
\* empty, and the documents are still listed
ChatReopenedEmpty ==
  /\ Panel = "chat" /\ chatPanel = ChatPanel0 /\ docs # <<>>
  /\ \E j \in 1..Len(net) : net[j].kind = "chat" /\ ~net[j].live

\* C13 as stated: every request a step sends carries no Authorization header if
\* it is a login/register request and otherwise Bearer and the non-empty token
\* of the session that is current when it is sent.
BearerOfCurrentSession ==
  [][LET Good(r) == IF r.kind = "auth" THEN r.authorization = Undefined
                    ELSE /\ Truthy(token')
                         /\ r.authorization = Str("Bearer " \o ToStr(token'))
     IN /\ Len(net') > Len(net) => Good(net'[Len(net')])
        /\ (Reload /\ net' # <<>>) => Good(net'[1])
        /\ \A i \in 1..Len(net) : \A resp \in Answers(net[i]) :
             (Settles(i, resp) /\ Len(net') = Len(net)) => Good(net'[Len(net')])]_vars

\* C13: a login/register request carries no Authorization header; every other
\* request carries Bearer and a non-empty string token, which is the token of
\* the session in which the handler that sends it was created: the current
\* token for a request sent by a user's action, by a page load or by a login,
\* the token of the settled request for one sent by its continuation (the next
\* file of a run, the refresh after an upload), whatever the session is by
\* then.  api sets the header exactly when the token it is passed is non-empty.
BearerOfIssuingSession ==
  /\ [](/\ \A j \in 1..Len(net) :
             IF net[j].kind = "auth"
             THEN net[j].token = Undefined /\ net[j].authorization = Undefined
             ELSE /\ net[j].token.t = "string" /\ net[j].token.v # ""
                  /\ net[j].authorization = Str("Bearer " \o net[j].token.v)
        /\ \A tk \in {token, Undefined, Null, Str("")} :
             (Authorization(tk) # Undefined) <=> (tk.t = "string" /\ tk.v # ""))
  /\ [][/\ (Len(net') > Len(net) /\ ~Reload) =>
             \/ net'[Len(net')].kind = "auth"
             \/ net'[Len(net')].token = token /\ token' = token
        /\ (Reload /\ net' # <<>>) => net'[1].token = token'
        /\ \A i \in 1..Len(net) : \A resp \in Answers(net[i]) :
             (Settles(i, resp) /\ Len(net') = Len(net)) =>
               net'[Len(net')].token = IF net[i].kind = "auth" THEN token'
                                       ELSE net[i].token]_vars

\* the refresh after an upload was sent after logout, with the token of the
\* session that is over
StaleTokenSent ==
  /\ variant = "tabs" /\ view = "auth" /\ token = Str("")
  /\ \E j \in 1..Len(net) :
       /\ net[j].kind = "list" /\ net[j].live /\ ~net[j].dlive
       /\ net[j].authorization = Str("Bearer t1")

\* C14: for a response that is not ok, api throws (it yields no value: the
\* login stores nothing, the listing writes no docs) an Error whose message is
\* the detail field of the JSON body if that is truthy, else its message field
\* if that is truthy, else 'Request failed', the last also for a body that is
\* not JSON or not an object.
ApiErrorMessage ==
  /\ \A resp \in ErrorResponses :
       LET b == resp.body
           expected == IF resp.json /\ b.kind = "object" /\ Truthy(b.detail)
                       THEN ToStr(b.detail)
                       ELSE IF resp.json /\ b.kind = "object" /\ Truthy(b.message)
                            THEN ToStr(b.message)
                            ELSE "Request failed"
       IN resp.status = "error" => ~Api(resp).ok /\ Api(resp).message = expected
  /\ [][\A i \in 1..Len(net) : \A resp \in ErrorResponses :
          LET b == resp.body
              expected == IF resp.json /\ b.kind = "object" /\ Truthy(b.detail)
                          THEN ToStr(b.detail)
                          ELSE IF resp.json /\ b.kind = "object" /\ Truthy(b.message)
                               THEN ToStr(b.message)
                               ELSE "Request failed"
          IN resp.status = "error" =>
               /\ AuthSettled(i, resp) =>
                    /\ authView'.error = expected /\ ~authView'.loading
                    /\ view' = "auth" /\ UNCHANGED authVars
               /\ ListSettled(i, resp) => docs' = docs]_vars

\* the sign-in failed with a body whose detail is falsy: the message field shows
MessageFieldShown ==
  view = "auth" /\ ~authView.loading /\ authView.error = "Bad input"

\* C16: in the sidebar build, every document the dashboard holds was listed
\* for the token of the session that is shown.
DocsOfCurrentSession ==
  (variant = "sidebar" /\ view = "dashboard") =>
    \A k \in 1..Len(docs) : docs[k].owner = token.v

\* C17: loadingDocs is true whenever a listing request is in flight whose
\* response the mounted owner of docs awaits, and false when none is in flight
\* after the first one has settled.
LoadingWhileListing ==
  view = "dashboard" =>
    /\ (\E j \in 1..Len(net) : net[j].kind = "list" /\ net[j].dlive) => loadingDocs
    /\ (docs # <<>> /\ \A j \in 1..Len(net) : net[j].kind # "list") => ~loadingDocs

\* C18 as stated: a blank submission sends nothing and changes nothing; any
\* other clears the input and sends one request, and when that request settles
\* exactly one turn is appended for it: the question, then the answer or
\* 'Error: ' and the message with no sources.
TurnPerSubmission ==
  /\ []((Panel = "chat" /\ ~chatPanel.busy /\ Blank(chatPanel.input)) =>
          send(chatPanel, token) = [panel |-> chatPanel, reqs |-> <<>>])
  /\ [][/\ (Send /\ ~Blank(chatPanel.input)) =>
             /\ chatPanel'.input = <<>> /\ chatPanel'.messages = chatPanel.messages
             /\ Len(net') = Len(net) + 1 /\ SubSeq(net', 1, Len(net)) = net
             /\ net'[Len(net')].kind = "chat"
             /\ net'[Len(net')].arg = Text(chatPanel.input)
        /\ \A i \in 1..Len(net) : \A resp \in Answers(net[i]) :
             ChatSettled(i, resp) =>
               chatPanel'.messages =
                 Append(chatPanel.messages,
                        IF resp.status = "ok"
                        THEN [q |-> net[i].arg, a |-> resp.body.answer,
                              sources |-> resp.body.sources]
                        ELSE [q |-> net[i].arg,
                              a |-> Str("Error: " \o Api(resp).message),
                              sources |-> <<>>])]_vars

\* C18: as above, for the requests of the chat panel that is mounted: the turn
\* of a request is appended when it settles if the panel that sent it is still
\* mounted, and dropped if that panel has been left; the turns of a panel
\* change in no other way until the panel is unmounted, which discards them.
TurnPerSubmissionWhileMounted ==
  /\ []((Panel = "chat" /\ ~chatPanel.busy /\ Blank(chatPanel.input)) =>
          send(chatPanel, token) = [panel |-> chatPanel, reqs |-> <<>>])
  /\ [][/\ (Send /\ ~Blank(chatPanel.input)) =>
             /\ chatPanel'.input = <<>> /\ chatPanel'.messages = chatPanel.messages
             /\ Len(net') = Len(net) + 1 /\ SubSeq(net', 1, Len(net)) = net
             /\ net'[Len(net')].kind = "chat"
             /\ net'[Len(net')].arg = Text(chatPanel.input)
        /\ \A i \in 1..Len(net) : \A resp \in Answers(net[i]) :
             ChatSettled(i, resp) =>
               IF net[i].live
               THEN chatPanel'.messages =
                      Append(chatPanel.messages,
                             IF resp.status = "ok"
                             THEN [q |-> net[i].arg, a |-> resp.body.answer,
                                   sources |-> resp.body.sources]
                             ELSE [q |-> net[i].arg,
                                   a |-> Str("Error: " \o Api(resp).message),
                                   sources |-> <<>>])
               ELSE chatPanel' = chatPanel
        /\ chatPanel'.messages # chatPanel.messages =>
             \/ \E i \in 1..Len(net) : \E resp \in Answers(net[i]) :
                  net[i].live /\ ChatSettled(i, resp)
             \/ /\ chatPanel' = ChatPanel0
                /\ Logout \/ Reload \/ \E t \in {"dashboard", "upload", "documents",
                                                 "compare", "analytics"} : SetTab(t)]_vars

\* two turns in the order of their submissions: the first failed, the second
\* was answered
FailedThenAnswered ==
  /\ Panel = "chat" /\ Len(chatPanel.messages) = 2 /\ ~chatPanel.busy
  /\ chatPanel.messages[1] = [q |-> "hi", a |-> Str("Error: Unauthorized"), sources |-> <<>>]
  /\ chatPanel.messages[2].a = Str("answer to hi")

\* C19 as stated: at most one chat request is in flight, and busy is true
\* exactly while one is.
OneChatInFlight ==
  /\ Cardinality({ j \in 1..Len(net) : net[j].kind = "chat" }) <= 1
  /\ Panel = "chat" => (chatPanel.busy <=> \E j \in 1..Len(net) : net[j].kind = "chat")

\* C19: at most one chat request of the mounted chat panel is in flight and
\* busy is true exactly while it is; while busy, no step sends a chat request;
\* requests of chat panels that have been left may still be in flight, and
\* their responses are dropped, so the turns appended follow the submissions.
OneLiveChatInFlight ==
  /\ [](/\ Cardinality({ j \in 1..Len(net) : net[j].kind = "chat" /\ net[j].live }) <= 1
        /\ (\E j \in 1..Len(net) : net[j].kind = "chat" /\ net[j].live) <=>
             (Panel = "chat" /\ chatPanel.busy)
        /\ Panel # "chat" => ~chatPanel.busy)
  /\ [][chatPanel.busy =>
          Cardinality({ j \in 1..Len(net') : net'[j].kind = "chat" })
            <= Cardinality({ j \in 1..Len(net) : net[j].kind = "chat" })]_vars

\* a question is pending in the chat panel while the question of a chat panel
\* that was left is still in flight
SecondChatOverOrphan ==
  /\ Panel = "chat" /\ chatPanel.busy
  /\ \E j, k \in 1..Len(net) :
       /\ net[j].kind = "chat" /\ ~net[j].live
       /\ net[k].kind = "chat" /\ net[k].live

\* C20: when a compare request of the mounted panel fails, result holds
\* {error: message}, loading is false, the panel shows the message and shows
\* none of the comparison output.
CompareErrorShown ==
  [][\A i \in 1..Len(net) : \A resp \in FailResponses :
       (CompareSettled(i, resp) /\ net[i].live) =>
         /\ comparePanel'.result = ErrorResult(Api(resp).message)
         /\ ~comparePanel'.loading
         /\ Api(resp).message \in CompareTexts'
         /\ ~CompareOutputShown']_vars

\* some loading indicator is on: the loading of AuthView, loadingDocs of the
\* dashboard, the loading of ComparePanel, busy of ChatPanel, busyId of
\* DocumentsPanel, the status 'uploading' of the upload panel or of an item of
\* a run
Busy ==
  \/ view = "auth" /\ authView.loading
  \/ view = "dashboard" /\ loadingDocs
  \/ comparePanel.loading
  \/ chatPanel.busy
  \/ documentsPanel.busyId # ""
  \/ uploadPanel.status = "uploading"
  \/ /\ view = "dashboard"
     /\ \E g \in 1..MaxSel : \E k \in 1..Len(heap[g]) : heap[g][k].status = "uploading"

\* C15: if every request in flight settles in the end, then whenever a loading
\* indicator is on, a state follows in which every loading indicator is off
\* (the loading of AuthView, loadingDocs, the loading of ComparePanel, busy of
\* ChatPanel and busyId of DocumentsPanel are false/empty and no upload item
\* has the status 'uploading').
IndicatorsGoOff == Busy ~> ~Busy

\* a run of two files is over, the first failed, the second is done, and the
\* listing that followed has settled
RunOverAllIdle ==
  /\ variant = "sidebar" /\ Panel = "upload" /\ files # 0 /\ net = <<>>
  /\ Len(heap[files]) = 2
  /\ heap[files][1].status = "error" /\ heap[files][2].status = "done"
  /\ ~loadingDocs

\* the compare requests in flight
CompareReqs(q) == { j \in 1..Len(q) : q[j].kind = "compare" }

\* C21 as stated: a compare request is issued only with both documents chosen
\* and no compare request in flight; result is null while a compare request is
\* in flight; when one settles, result is the response or {error: message}.
CompareOneAtATime ==
  /\ [](/\ Cardinality(CompareReqs(net)) <= 1
        /\ (Panel = "compare" /\ CompareReqs(net) # {}) =>
             comparePanel.result = NoResult)
  /\ [][/\ CompareSubmit =>
             /\ comparePanel.left # "" /\ comparePanel.right # ""
             /\ CompareReqs(net) = {}
        /\ \A i \in 1..Len(net) : \A resp \in Answers(net[i]) :
             CompareSettled(i, resp) =>
               comparePanel'.result = IF resp.status = "ok" THEN Api(resp).data
                                      ELSE ErrorResult(Api(resp).message)]_vars

\* C21: a compare request is issued only by the Compare button, with both left
\* and right non-empty and no request of the mounted panel in flight; it
\* carries the two ids, sets loading and clears result.  While the request of
\* the mounted panel is in flight loading is true and result is null.  When it
\* settles, loading is false and result is the response or {error: message}.
\* A request of a panel that has been left may still be in flight beside the
\* one of the mounted panel; its response changes nothing.  result changes in
\* no other way while the panel is mounted.
CompareOfMountedPanel ==
  /\ [](/\ Cardinality({ j \in CompareReqs(net) : net[j].live }) <= 1
        /\ (\E j \in CompareReqs(net) : net[j].live) <=>
             (Panel = "compare" /\ comparePanel.loading)
        /\ comparePanel.loading => comparePanel.result = NoResult)
  /\ [][/\ CompareSubmit =>
             /\ comparePanel.left # "" /\ comparePanel.right # ""
             /\ ~comparePanel.loading
             /\ \A j \in CompareReqs(net) : ~net[j].live
             /\ Len(net') = Len(net) + 1 /\ SubSeq(net', 1, Len(net)) = net
             /\ net'[Len(net')].kind = "compare" /\ net'[Len(net')].live
             /\ net'[Len(net')].arg = comparePanel.left \o "|" \o comparePanel.right
             /\ comparePanel'.loading /\ comparePanel'.result = NoResult
        /\ Cardinality(CompareReqs(net')) > Cardinality(CompareReqs(net)) => CompareSubmit
        /\ \A i \in 1..Len(net) : \A resp \in Answers(net[i]) :
             CompareSettled(i, resp) =>
               IF net[i].live
               THEN /\ ~comparePanel'.loading
                    /\ comparePanel'.result = IF resp.status = "ok" THEN Api(resp).data
                                              ELSE ErrorResult(Api(resp).message)
               ELSE comparePanel' = comparePanel
        /\ comparePanel'.result # comparePanel.result =>
             \/ CompareSubmit
             \/ \E i \in 1..Len(net) : \E resp \in Answers(net[i]) :
                  net[i].live /\ CompareSettled(i, resp)
             \/ comparePanel' = ComparePanel0]_vars

\* the mounted compare panel shows a comparison while the request of a compare
\* panel that was left is still in flight
ComparedOverOrphan ==
  /\ Panel = "compare" /\ ~comparePanel.loading
  /\ comparePanel.result = CompareData
  /\ \E j \in CompareReqs(net) : ~net[j].live

\* the summarize requests of the mounted documents panel that are in flight
SummarizeReqs(q) == { j \in 1..Len(q) : q[j].kind = "summarize" /\ q[j].live }

\* C22: busyId is non-empty whenever a summarize request of the mounted panel
\* is in flight; and when the last such request in flight settles, the summary
\* shown is a result for the document whose button was clicked last: the
\* request is for that document and the summary is its summary text, or
\* 'Error: ' and the message.
SummaryOfLastClick ==
  /\ [](SummarizeReqs(net) # {} => documentsPanel.busyId # "")
  /\ [][\A i \in 1..Len(net) :
          \A resp \in FailResponses \cup SummarizeOk(net[i].arg) :
            (SummarizeSettled(i, resp) /\ net[i].live /\ SummarizeReqs(net') = {}) =>
              /\ ~net[i].superseded
              /\ documentsPanel'.summary =
                   IF resp.status = "ok" THEN resp.body.summary
                   ELSE Str("Error: " \o Api(resp).message)]_vars

\* C23: in the upload panel of the tabs build the status is idle, uploading,
\* done or error; an upload starts only with a file selected and a status
\* other than 'uploading', and sets 'uploading'; progress is 10 while
\* uploading and is 100 exactly when the status is 'done'; when the request of
\* the mounted panel settles, a success leaves 'done' and the message
\* 'Uploaded ' and the filename of the response, a failure leaves 'error' and
\* the message of the failure; a successful upload sends one listing request
\* (onDone) and a failed one sends none.
UploadStateMachine ==
  /\ [](/\ uploadPanel.status \in {"idle", "uploading", "done", "error"}
        /\ uploadPanel.status = "idle" => uploadPanel.progress = 0
        /\ uploadPanel.status = "uploading" => uploadPanel.progress = 10
        /\ uploadPanel.progress = 100 <=> uploadPanel.status = "done")
  /\ [][/\ HandleUpload =>
             /\ uploadPanel.file # "" /\ uploadPanel.status # "uploading"
             /\ uploadPanel'.status = "uploading"
        /\ (uploadPanel'.status = "uploading" /\ uploadPanel.status # "uploading")
             => HandleUpload
        /\ \A i \in 1..Len(net) : \A resp \in Answers(net[i]) \cup UploadOkNull :
             UploadSettled(i, resp) =>
               /\ net[i].live =>
                    IF resp.status = "ok"
                    THEN /\ uploadPanel'.status = "done"
                         /\ uploadPanel'.message =
                              "Uploaded " \o ToStr(Filename(Api(resp).data))
                    ELSE /\ uploadPanel'.status = "error"
                         /\ uploadPanel'.message = Api(resp).message
               /\ Wire(net') = IF resp.status = "ok"
                               THEN Append(Wire(RemoveAt(net, i)),
                                           WireOf(ListReq(net[i].token)))
                               ELSE Wire(RemoveAt(net, i))]_vars

\* the upload requests in flight of the runs started on selection g
RunReqs(q, g) == { j \in 1..Len(q) : q[j].kind = "upload" /\ q[j].sel = g }

\* C24: a multi-file run uploads the files of its list one after another in
\* list order.  Start upload sends the upload of the first file; when the
\* upload of a file settles, the file is marked 'done' with progress 100 or
\* 'error', one toast is pushed for it, and the run goes on, after a failure
\* as after a success, with the upload of the next file, or after the last
\* file with one listing request (onDone) and with every file 'done' or
\* 'error'.  No listing is sent before the last file has settled.  While the
\* run is in flight one file is 'uploading', those before it are 'done' or
\* 'error', and none after it is 'uploading'.
RunInOrder ==
  /\ [](variant = "sidebar" =>
          \A j \in 1..Len(net) : net[j].kind = "upload" =>
            LET g == net[j].sel
                items == heap[g]
            IN /\ net[j].idx \in 1..Len(items)
               /\ Cardinality(RunReqs(net, g)) = 1
               /\ net[j].arg = FileName(items[net[j].idx])
               /\ items[net[j].idx].status = "uploading"
               /\ items[net[j].idx].progress = 10
               /\ \A k \in 1..Len(items) :
                    /\ k < net[j].idx => items[k].status \in {"done", "error"}
                    /\ k > net[j].idx => items[k].status \in {"queued", "done", "error"}
                    /\ items[k].status = "done" => items[k].progress = 100)
  /\ [][/\ StartUpload =>
             /\ Len(net') = Len(net) + 1
             /\ net'[Len(net')].kind = "upload" /\ net'[Len(net')].sel = files
             /\ net'[Len(net')].idx = 1
        /\ \A i \in 1..Len(net) : \A resp \in Answers(net[i]) : \A id \in ToastIds :
             RunSettled(i, resp, id) =>
               LET r == net[i]
                   g == r.sel
                   n == Len(heap[g])
                   ok == resp.status = "ok"
                   rest == Wire(RemoveAt(net, i))
                   last == net'[Len(net')]
               IN /\ Len(toasts') = Len(toasts) + 1
                  /\ SubSeq(toasts', 1, Len(toasts)) = toasts
                  /\ toasts'[Len(toasts')].title =
                       IF ok THEN "Upload complete" ELSE "Upload failed"
                  /\ Len(net') = Len(rest) + 1
                  /\ SubSeq(Wire(net'), 1, Len(rest)) = rest
                  /\ IF r.idx < n
                     THEN /\ last.kind = "upload" /\ last.sel = g /\ last.idx = r.idx + 1
                          /\ last.arg = FileName(heap[g][r.idx + 1])
                          /\ heap'[g][r.idx].status = IF ok THEN "done" ELSE "error"
                          /\ ok => heap'[g][r.idx].progress = 100
                          /\ heap'[g][r.idx + 1].status = "uploading"
                     ELSE /\ WireOf(last) = WireOf(ListReq(r.token))
                          /\ heap'[g] # <<>> =>
                               /\ heap'[g][n].status = IF ok THEN "done" ELSE "error"
                               /\ \A k \in 1..n :
                                    /\ heap'[g][k].status \in {"done", "error"}
                                    /\ heap'[g][k].status = "done" =>
                                         heap'[g][k].progress = 100]_vars

\* a run of two files has just ended: the first file failed, the second is
\* done, its toast is in the queue and the listing request is in flight
RunEndedWithListing ==
  /\ variant = "sidebar" /\ Panel = "upload" /\ files # 0
  /\ Len(heap[files]) = 2
  /\ heap[files][1].status = "error"
  /\ heap[files][2] = [f |-> 2, progress |-> 100, status |-> "done"]
  /\ Len(toasts) = 1 /\ toasts[1].title = "Upload complete"
  /\ Len(net) = 1 /\ net[1].kind = "list"

\* C25: in the multi-file upload panel no two upload requests of one list are
\* in flight together (Start upload during a run starts no second run), and no
\* step sends the upload of a file whose status is 'uploading' or 'done'.
FileSentOnce ==
  /\ [](variant = "sidebar" =>
          \A g \in 1..MaxSel : Cardinality(RunReqs(net, g)) <= 1)
  /\ [][/\ StartUpload => heap[files][1].status \notin {"uploading", "done"}
        /\ \A i \in 1..Len(net) : \A resp \in Answers(net[i]) : \A id \in ToastIds :
             (RunSettled(i, resp, id) /\ net[i].idx < Len(heap[net[i].sel])) =>
               heap[net[i].sel][net[i].idx + 1].status \notin {"uploading", "done"}]_vars

\* C26: choosing or dropping files, also while a run is in progress, makes the
\* list shown a new list of that many items, each 'queued' with progress 0,
\* and leaves the items of the runs in flight as they are; and when the upload
\* of a run started on another list settles, the list shown stays the one
\* selected.
NewSelectionKept ==
  [][/\ \A n \in 1..MaxFiles :
          SelectFiles(n) =>
            /\ files' # 0 /\ Len(heap'[files']) = n
            /\ \A k \in 1..n : heap'[files'][k] = [f |-> k, progress |-> 0, status |-> "queued"]
            /\ \A j \in 1..Len(net) : net[j].kind = "upload" =>
                 files' # net[j].sel /\ heap'[net[j].sel] = heap[net[j].sel]
     /\ \A i \in 1..Len(net) : \A resp \in Answers(net[i]) : \A id \in ToastIds :
          (RunSettled(i, resp, id) /\ Panel = "upload" /\ files # net[i].sel) =>
            files' = files]_vars

\* C27: the toasts of the queue have distinct ids; the queue changes only by
\* a push, a dismissal or a page load; a push appends one toast at the end
\* and leaves the others as they are; the dismissal of an id removes the one
\* toast with that id and keeps the order of the others, and dismiss is a
\* no-op for an id that is not in the queue.
ToastQueue ==
  /\ [](/\ \A j, k \in 1..Len(toasts) : j # k => toasts[j].id # toasts[k].id
        /\ \A id \in ToastIds :
             (\A k \in 1..Len(toasts) : toasts[k].id # id) => dismiss(toasts, id) = toasts)
  /\ [][/\ \A i \in 1..Len(net) : \A resp \in Answers(net[i]) : \A id \in ToastIds :
             RunSettled(i, resp, id) =>
               /\ Len(toasts') = Len(toasts) + 1
               /\ SubSeq(toasts', 1, Len(toasts)) = toasts
               /\ toasts'[Len(toasts')].id = id
        /\ \A id \in ToastIds :
             Dismiss(id) =>
               \E k \in 1..Len(toasts) : toasts[k].id = id /\ toasts' = RemoveAt(toasts, k)
        /\ toasts' # toasts =>
             \/ \E i \in 1..Len(net) : \E resp \in Answers(net[i]) : \E id \in ToastIds :
                  RunSettled(i, resp, id)
             \/ \E id \in ToastIds : Dismiss(id)
             \/ Reload]_vars

\* the toast of the second file of a run stands in front of the toast of the
\* first file of a later run: the toast of the first file of the earlier run
\* has been dismissed, and the later push went to the end
ToastBehindOlderToast ==
  /\ Len(toasts) = 2
  /\ toasts[1].title = "Upload complete" /\ toasts[1].description = "f2"
  /\ toasts[2].title = "Upload complete" /\ toasts[2].description = "f1"
  /\ toasts[1].id # toasts[2].id

\* C28: in the sidebar build, once App has rendered and the effect has run,
\* the document root has the class 'dark' exactly when dark is true,
\* theme_dark is '1' when dark and '0' otherwise, and useTheme initialised
\* from localStorage yields dark again; without a stored theme_dark it yields
\* true.  The theme button flips dark, and a second toggle restores dark and
\* localStorage; a page load keeps dark.
ThemeConsistent ==
  /\ []((variant = "sidebar" /\ ~crashed) =>
          /\ rootDark = dark
          /\ GetItem(ls, "theme_dark") = Str(IF dark THEN "1" ELSE "0")
          /\ useTheme(ls) = dark
          /\ useTheme(RemoveItem(ls, "theme_dark")) = TRUE
          /\ LET once == ThemeEffect(ls, ~dark)
             IN /\ useTheme(once) = ~dark
                /\ ThemeEffect(once, ~useTheme(once)) = ls)
  /\ [][/\ ToggleTheme =>
             /\ dark' = ~dark /\ rootDark' = dark'
             /\ ls' = ThemeEffect(ls, ~dark)
             /\ useTheme(ls') = dark'
        /\ (Reload /\ variant = "sidebar" /\ ~crashed /\ ~crashed') =>
             dark' = dark /\ rootDark' = dark
        /\ dark' # dark => ToggleTheme \/ Reload]_vars

\* the light theme was chosen and the user has logged out: the theme is all
\* that localStorage holds
LightThemeAfterLogout ==
  /\ variant = "sidebar" /\ view = "auth" /\ ~crashed
  /\ ~dark /\ ~rootDark
  /\ DOMAIN ls = {"theme_dark"} /\ ls["theme_dark"] = "0"

=============================================================================
